---- MODULE Spec2Model ----
(***************************************************************************)
(* Connection lifecycle of the shop <-> infrastructure-provider            *)
(* marketplace: shop creation, BTCPay store provisioning, NWC subscription *)
(* payment, manual retry and BTCPay webhooks, as request handlers that     *)
(* interleave at their database accesses.                                  *)
(*                                                                         *)
(* Nullable columns and optional values are sequences of length 0 or 1:    *)
(* << >> is null / undefined, <<v>> is the value v.                        *)
(*                                                                         *)
(* One step of a handler is the local computation and outbound calls up    *)
(* to a database access whose timing other requests can observe, and that  *)
(* access.  Accesses whose timing nothing can observe ride along with the  *)
(* step next to them: reads of columns that never change once written      *)
(* (subscriptionAmount, the stored wallet secret, the existence and id of  *)
(* a connection row), and appends to PaymentHistory, which no handler      *)
(* reads.  The persistence layer is reliable in Spec; SpecPay adds the     *)
(* collaborator failures that initiateConnectionPayment has to absorb.     *)
(***************************************************************************)
EXTENDS Integers, Sequences, FiniteSets, TLC

\* ------------------------------------------------------------------ bounds
\* shops (and so connections) ever created
MaxShops == 1

\* requests in flight at once
MaxProcs == 2

\* rows of PaymentHistory
MaxHist == 2

\* user/store ids the BTCPay server hands out
MaxRemoteIds == 1

\* ------------------------------------------------------- program constants
\* manual retry: const maxRetries = 5
maxRetries == 5

\* create-store: const maxRetries = 1 (two createShopSetup calls in all)
setupMaxRetries == 1

Null == << >>

Some(v) == <<v>>

IsNull(o) == o = << >>

Val(o) == o[1]

Procs == 1..MaxProcs

RemoteIds == 1..MaxRemoteIds

\* ---------------------------------------------------------------- providers
\* InfrastructureProvider rows; the handlers only read them.  A column that
\* is only tested for presence is a BOOLEAN.
Provider(id) ==
  CASE id = 1 -> [serviceType |-> "BTCPAY_SERVER", hostUrl |-> TRUE,  btcpayApiKey |-> TRUE,
                  lightningAddress |-> TRUE,  webhookSecret |-> TRUE]
    [] id = 2 -> [serviceType |-> "BTCPAY_SERVER", hostUrl |-> TRUE,  btcpayApiKey |-> TRUE,
                  lightningAddress |-> FALSE, webhookSecret |-> FALSE]
    [] id = 3 -> [serviceType |-> "OTHER",         hostUrl |-> FALSE, btcpayApiKey |-> FALSE,
                  lightningAddress |-> TRUE,  webhookSecret |-> FALSE]
    [] id = 4 -> [serviceType |-> "BTCPAY_SERVER", hostUrl |-> TRUE,  btcpayApiKey |-> FALSE,
                  lightningAddress |-> TRUE,  webhookSecret |-> FALSE]

ProviderIds == {1, 2, 3, 4}

\* ------------------------------------------------------------ request input
\* `amount` of the shop-creation body as it arrives: absent or "500"
AmountInputs == {"", "500"}

\* a wallet connection string `new URL` parses and that carries a secret
ValidNwc == "nostr+walletconnect://relay?secret=s"

\* `nwcConnectionString` of the shop-creation body: absent or well-formed
NwcInputs == {"", ValidNwc}

Truthy(s) == s # ""

\* parseInt(amount)
ParseInt(a) == IF a = "500" THEN 500 ELSE 0

\* encryptionService.encrypt / decrypt
Encrypt(plain) == <<"enc", plain>>

Decrypt(blob) == blob[2]

\* A header or a digest is a sequence of bytes.  The bytes that matter: the
\* separator "=", two hex digits, and an algorithm tag taken as one byte.
\* encryptionService.hmacSha256(data, secret): the hex digest, here one
\* digit for the data and one for the key (no two inputs share a digest)
HmacSha256(data, secret) ==
  <<IF data = "body" THEN "0" ELSE "1", IF secret = "secret" THEN "0" ELSE "1">>

\* the header BTCPay sends: sha256=<hash>
SignatureHeader(hash) == <<"sha256", "=">> \o hash

\* the `btcpay-sig` header of a webhook request: absent, or signed with
\* the provider's secret or with another one
SigInputs == {<< >>, SignatureHeader(HmacSha256("body", "secret")),
              SignatureHeader(HmacSha256("body", "other"))}

EventTypes == {"store.modified", "store.user.removed", "store.deleted", "invoice.created"}

VARIABLES shop, conn, hist, proc

vars == <<shop, conn, hist, proc>>

\* ---------------------------------------------------------- process records
\* pc: where the request stands; caller: the handler that gets the result of
\* a sub-operation; s, c, prov: shop, connection, provider in hand; amount,
\* nwc: request input still to be used; snap: the
\* connection columns a manual retry read at its start; res: the
\* PaymentResult; setup: the id of createShopSetup's user and store; io:
\* outbound calls of the payment in hand; ret: the response; args: the
\* arguments of a call of verifyWebhookSignature on its own
IdleProc ==
  [pc |-> "idle", caller |-> "none", s |-> 0, c |-> 0, prov |-> 0,
   amount |-> "", nwc |-> "", snap |-> << >>, res |-> << >>,
   setup |-> << >>, io |-> 0, ret |-> << >>, args |-> << >>]

\* NextResponse.json(body, {status: code}): the request is over
Respond(pr, code, body) ==
  [IdleProc EXCEPT !.pc = "done", !.ret = <<[code |-> code, body |-> body]>>]

\* proc lists the requests not yet answered in the order they arrived: a
\* new request takes the first free slot
Free(p) ==
  /\ proc[p].pc = "idle"
  /\ \A q \in Procs : q < p => proc[q].pc # "idle"

\* the requests in flight that may still append a PaymentHistory row: a
\* payment, a retry that leads to one, a webhook handler
Appenders ==
  {q \in Procs :
     \/ proc[q].pc \in {"pay_load", "pay_send", "rpay_load",
                        "wh_removed", "wh_deleted", "wh_deleted_shop"}
     \/ proc[q].pc = "shops_conn" /\ proc[q].nwc # ""
     \/ proc[q].pc = "retry_update" /\ proc[q].snap[1].method = "nwc"}

\* room left in the PaymentHistory table for one more row
HistRoom == Len(hist) + Cardinality(Appenders) < MaxHist

HistoryRow(connectionId, status, amount) ==
  [connectionId |-> connectionId, status |-> status, paymentAmount |-> amount]

NoCredentials == [btcpayStoreId |-> Null, btcpayUserId |-> Null, btcpayUsername |-> Null]

\* the credentials of a createShopSetup result
Credentials(id) ==
  [btcpayStoreId |-> Some(id), btcpayUserId |-> Some(id), btcpayUsername |-> Some("username")]

\* NewConnection typing every connection as a paid subscription
NewConnectionAlwaysPaid(shopId, providerId, amount) ==
  [shopId |-> shopId, providerId |-> providerId,
   connectionType |-> "PAID_SUBSCRIPTION",
   status |-> "PENDING",
   subscriptionAmount |-> IF Truthy(amount) THEN Some(ParseInt(amount)) ELSE Null,
   setupError |-> Null, retryCount |-> 0, nwcConnectionString |-> Null]

NewConnection(shopId, providerId, amount) ==
  [shopId |-> shopId, providerId |-> providerId,
   connectionType |-> IF Truthy(amount) THEN "PAID_SUBSCRIPTION" ELSE "FREE_LISTING",
   status |-> "PENDING",
   subscriptionAmount |-> IF Truthy(amount) THEN Some(ParseInt(amount)) ELSE Null,
   setupError |-> Null, retryCount |-> 0, nwcConnectionString |-> Null]

\* the shop, connection and payment_history tables; a row's id is its index
Init ==
  /\ shop = << >>
  /\ conn = << >>
  /\ hist = << >>
  /\ proc = [p \in Procs |-> IdleProc]

\* prisma.connection.findFirst({where: {shopId, providerId}}); 0: none
FindConnection(shopId, providerId) ==
  LET found == {c \in DOMAIN conn :
                  conn[c].shopId = shopId /\ conn[c].providerId = providerId}
  IN IF found = {} THEN 0 ELSE CHOOSE c \in found : \A d \in found : c <= d

\* ------------------------------------------------- create-store: entry/exit
\* the create-store handler hands its response to whoever called it: the
\* shops route (which fetches it and looks at response.ok) or the client
CreateStoreReturn(pr, code, body) ==
  IF pr.caller = "shops"
    THEN IF code < 400 THEN [pr EXCEPT !.pc = "shops_creds"]
                       ELSE Respond(pr, 201, "shop")
    ELSE Respond(pr, code, body)

\* validation of the create-store request up to the client construction
CreateStoreEntry(pr, shopId, providerId) ==
  IF shopId \notin DOMAIN shop
    THEN CreateStoreReturn(pr, 404, "Shop not found or access denied")
  ELSE IF providerId \notin ProviderIds \/ Provider(providerId).serviceType # "BTCPAY_SERVER"
    THEN CreateStoreReturn(pr, 400, "Invalid BTCPay provider")
  ELSE IF ~Provider(providerId).hostUrl
    THEN CreateStoreReturn(pr, 500, "Provider host URL not configured")
  ELSE IF ~Provider(providerId).btcpayApiKey
    THEN CreateStoreReturn(pr, 500, "Provider BTCPay API key not configured")
  ELSE [pr EXCEPT !.pc = "cs_setup", !.s = shopId, !.prov = providerId]

\* ------------------------------------------------------------- shops route
\* after the connection is created and paid / activated: provisioning for a
\* BTCPay provider with a host URL, otherwise 201
ShopsAfterConnection(pr) ==
  IF Provider(pr.prov).serviceType = "BTCPAY_SERVER" /\ Provider(pr.prov).hostUrl
    THEN CreateStoreEntry(pr, pr.s, pr.prov)
    ELSE Respond(pr, 201, "shop")

\* POST /api/shops up to prisma.shop.create.  providerId 0: none given.
\* The wallet string is only looked at when an amount is given.
ShopsRequest(p) ==
  /\ Free(p)
  /\ \E name \in BOOLEAN, providerId \in {0} \cup ProviderIds,
        amount \in AmountInputs, nwc \in NwcInputs :
       IF ~name
         THEN /\ proc' = [proc EXCEPT ![p] = Respond(IdleProc, 400, "Shop name is required")]
              /\ UNCHANGED <<shop, conn, hist>>
         ELSE /\ Len(shop) < MaxShops
              /\ (providerId # 0 /\ Truthy(amount) /\ Truthy(nwc)) => HistRoom
              /\ shop' = Append(shop, NoCredentials)
              /\ proc' = [proc EXCEPT ![p] =
                   [IdleProc EXCEPT !.pc = "shops_conn", !.caller = "shops",
                      !.s = Len(shop) + 1, !.prov = providerId,
                      !.amount = IF providerId # 0 THEN amount ELSE "",
                      !.nwc = IF providerId # 0 /\ Truthy(amount) THEN nwc ELSE ""]]
              /\ UNCHANGED <<conn, hist>>

\* the connection block of POST /api/shops up to prisma.connection.create
ShopsCreateConnection(p) ==
  LET pr == proc[p] IN
  /\ pr.pc = "shops_conn"
  /\ IF pr.prov = 0
       THEN /\ proc' = [proc EXCEPT ![p] = Respond(pr, 201, "shop")]
            /\ UNCHANGED <<shop, conn, hist>>
     ELSE IF Truthy(pr.amount) /\ ~Truthy(pr.nwc)
       THEN /\ proc' = [proc EXCEPT ![p] =
                 Respond(pr, 400, "NWC connection string required for paid subscriptions")]
            /\ UNCHANGED <<shop, conn, hist>>
     ELSE /\ conn' = Append(conn, NewConnection(pr.s, pr.prov, pr.amount))
          /\ proc' = [proc EXCEPT ![p] =
               [pr EXCEPT !.c = Len(conn) + 1, !.amount = "",
                          !.pc = IF Truthy(pr.amount) /\ Truthy(pr.nwc)
                                   THEN "pay_load" ELSE "shops_free"]]
          /\ UNCHANGED <<shop, hist>>

\* free listing: mark as ACTIVE immediately
ShopsActivateFree(p) ==
  LET pr == proc[p] IN
  /\ pr.pc = "shops_free"
  /\ conn' = [conn EXCEPT ![pr.c].status = "ACTIVE"]
  /\ proc' = [proc EXCEPT ![p] = ShopsAfterConnection(pr)]
  /\ UNCHANGED <<shop, hist>>

\* greenfieldResponse.ok: the shops route writes the credentials once more
ShopsStoreCredentials(p) ==
  LET pr == proc[p] IN
  /\ pr.pc = "shops_creds"
  /\ shop' = [shop EXCEPT ![pr.s] = Credentials(Val(pr.setup))]
  /\ proc' = [proc EXCEPT ![p] = Respond(pr, 201, "shop")]
  /\ UNCHANGED <<conn, hist>>

\* --------------------------------------------------------- payment service
Failure(msg) == [success |-> FALSE, error |-> msg]

Success == [success |-> TRUE, error |-> ""]

\* initiateConnectionPayment returns `result` to its caller: the shops
\* route, the manual retry (retryNWCPayment), or a caller outside the routes
PayReturn(pr, result) ==
  IF pr.caller = "shops"
    THEN ShopsAfterConnection([pr EXCEPT !.nwc = "", !.io = 0])
  ELSE IF pr.caller = "retry"
    THEN IF result.success
           THEN Respond(pr, 200, "Connection retry successful")
           ELSE Respond(pr, 500, result.error)
  ELSE [IdleProc EXCEPT !.pc = "returned", !.res = Some(result), !.io = pr.io]

\* if (!connection.subscriptionAmount): null and 0 are both falsy
NoAmount(amount) == IsNull(amount) \/ Val(amount) = 0

\* PayPrecheck looking at the provider's address before the amount
PayPrecheckAddressFirst(c) ==
  IF c \notin DOMAIN conn THEN "Connection not found"
  ELSE IF ~Provider(conn[c].providerId).lightningAddress
    THEN "Provider lightning address not configured"
  ELSE IF NoAmount(conn[c].subscriptionAmount) THEN "No subscription amount configured"
  ELSE ""

\* initiateConnectionPayment: what the checks before any write answer;
\* "" when they all pass
PayPrecheck(c) ==
  IF c \notin DOMAIN conn THEN "Connection not found"
  ELSE IF NoAmount(conn[c].subscriptionAmount) THEN "No subscription amount configured"
  ELSE IF ~Provider(conn[c].providerId).lightningAddress
    THEN "Provider lightning address not configured"
  ELSE ""

\* initiateConnectionPayment: load the connection, configuration checks,
\* encrypt and store the NWC connection string
PayLoad(p) ==
  LET pr == proc[p] IN
  /\ pr.pc = "pay_load"
  /\ IF PayPrecheck(pr.c) # ""
       THEN /\ proc' = [proc EXCEPT ![p] = PayReturn(pr, Failure(PayPrecheck(pr.c)))]
            /\ UNCHANGED conn
       ELSE /\ proc' = [proc EXCEPT ![p].pc = "pay_send"]
            /\ conn' = [conn EXCEPT ![pr.c].nwcConnectionString = Some(Encrypt(pr.nwc))]
  /\ UNCHANGED <<shop, hist>>

\* sendNWCPayment: parse the connection string, resolve the lightning
\* address (two fetches), pay (the wallet call the code simulates always
\* succeeds).  `lnurl` and `invoice` say whether the two fetches answer
\* well; io: the outbound calls made.
SendNWCPayment(nwc, lnurl, invoice) ==
  IF nwc # ValidNwc
    THEN [result |-> Failure("Invalid NWC connection string format"), io |-> 0]
  ELSE IF ~lnurl
    THEN [result |-> Failure("Failed to generate invoice from lightning address"), io |-> 1]
  ELSE IF ~invoice
    THEN [result |-> Failure("Failed to generate invoice from lightning address"), io |-> 2]
  ELSE [result |-> Success, io |-> 3]

\* the connection update that follows the payment
PaymentStatus(row, result) ==
  IF result.success
    THEN [row EXCEPT !.status = "ACTIVE"]
    ELSE [row EXCEPT !.status = "FAILED", !.setupError = Some("Payment failed")]

\* process the payment, record it in PaymentHistory, mark the connection
\* ACTIVE or FAILED, return the result
PaySend(p) ==
  LET pr == proc[p] IN
  /\ pr.pc = "pay_send"
  /\ \E lnurl \in BOOLEAN, invoice \in BOOLEAN :
       LET sent == SendNWCPayment(pr.nwc, lnurl, invoice) IN
       /\ hist' = Append(hist, HistoryRow(pr.c,
                     IF sent.result.success THEN "success" ELSE "failed",
                     Val(conn[pr.c].subscriptionAmount)))
       /\ conn' = [conn EXCEPT ![pr.c] = PaymentStatus(@, sent.result)]
       /\ proc' = [proc EXCEPT ![p] = PayReturn([pr EXCEPT !.io = sent.io], sent.result)]
  /\ UNCHANGED shop

\* ------------------------------------------------------ create-store route
\* POST /api/providers/greenfield/create-store called by a client, for a
\* shop id (one past the last row: no such shop) and a provider id
CreateStoreRequest(p) ==
  /\ Free(p)
  /\ \E shopId \in 1..(Len(shop) + 1), providerId \in ProviderIds :
       proc' = [proc EXCEPT ![p] = CreateStoreEntry(IdleProc, shopId, providerId)]
  /\ UNCHANGED <<shop, conn, hist>>

\* the retry loop around createShopSetup: outs[i] is the outcome of the
\* i-th call; yields the local retryCount and the number of calls made
RECURSIVE SetupLoop(_, _, _)
SetupLoop(outs, retryCount, calls) ==
  IF retryCount <= setupMaxRetries
    THEN IF outs[calls + 1]
           THEN [ok |-> TRUE, retryCount |-> retryCount, calls |-> calls + 1]
           ELSE IF retryCount < setupMaxRetries
                  THEN SetupLoop(outs, retryCount + 1, calls + 1)
                  ELSE [ok |-> FALSE, retryCount |-> retryCount, calls |-> calls + 1]
    ELSE [ok |-> FALSE, retryCount |-> retryCount, calls |-> calls]

\* SetupExhausted, were it to count the attempt on top of the stored counter
SetupExhaustedCounting(row, retryCount) ==
  [row EXCEPT !.status = "PENDING_SETUP",
              !.setupError = Some("Failed to set up shop on BTCPay Server"),
              !.retryCount = row.retryCount + retryCount]

\* max retries reached: status PENDING_SETUP, retryCount: the loop's counter
SetupExhausted(row, retryCount) ==
  [row EXCEPT !.status = "PENDING_SETUP",
              !.setupError = Some("Failed to set up shop on BTCPay Server"),
              !.retryCount = retryCount]

\* SetupSucceeded leaving the recorded error in place
SetupSucceededKeepingError(row) ==
  [row EXCEPT !.status = "ACTIVE", !.retryCount = 0]

\* update connection status to ACTIVE
SetupSucceeded(row) ==
  [row EXCEPT !.status = "ACTIVE", !.setupError = Null, !.retryCount = 0]

\* the provisioning loop, then shop.update on success, the update of the
\* connection found for (shopId, providerId) when the retries are used up
CreateStoreSetup(p) ==
  LET pr == proc[p]
      c == FindConnection(pr.s, pr.prov) IN
  /\ pr.pc = "cs_setup"
  /\ \E outs \in [1..(setupMaxRetries + 1) -> BOOLEAN], id \in RemoteIds :
       LET loop == SetupLoop(outs, 0, 0) IN
       IF loop.ok
         THEN /\ shop' = [shop EXCEPT ![pr.s] = Credentials(id)]
              /\ proc' = [proc EXCEPT ![p] =
                   [pr EXCEPT !.pc = "cs_activate", !.setup = Some(id)]]
              /\ UNCHANGED <<conn, hist>>
         ELSE /\ conn' = IF c = 0 THEN conn
                         ELSE [conn EXCEPT ![c] = SetupExhausted(@, loop.retryCount)]
              /\ proc' = [proc EXCEPT ![p] =
                   CreateStoreReturn(pr, 500, "Failed to create BTCPay store after retries")]
              /\ UNCHANGED <<shop, hist>>

\* after the shop update: find the connection record, mark it ACTIVE
CreateStoreActivate(p) ==
  LET pr == proc[p]
      c == FindConnection(pr.s, pr.prov) IN
  /\ pr.pc = "cs_activate"
  /\ conn' = IF c = 0 THEN conn ELSE [conn EXCEPT ![c] = SetupSucceeded(@)]
  /\ proc' = [proc EXCEPT ![p] = CreateStoreReturn(pr, 200, "store created")]
  /\ UNCHANGED <<shop, hist>>

\* ------------------------------------------------------------- retry route
\* RetryLimitReached with the comparison off by one
RetryLimitReachedLate(retryCount) == retryCount > maxRetries

\* if (connection.retryCount >= maxRetries)
RetryLimitReached(retryCount) == retryCount >= maxRetries

\* CanRetry letting a disconnected connection through
CanRetryAnyDown(status) == status \in {"FAILED", "PENDING_SETUP", "DISCONNECTED"}

\* CanRetry refusing a connection whose provisioning is pending
CanRetryFailedOnly(status) == status = "FAILED"

\* if (status !== 'FAILED' && status !== 'PENDING_SETUP'): not retryable
CanRetry(status) == status \in {"FAILED", "PENDING_SETUP"}

\* what POST /api/connections/:id/retry answers to before any write; ""
\* when the retry is accepted
RetryPrecheck(id) ==
  IF id \notin DOMAIN conn THEN "Connection not found or access denied"
  ELSE IF ~CanRetry(conn[id].status) THEN "Connection is not in a failed state"
  ELSE IF RetryLimitReached(conn[id].retryCount) THEN "Maximum retry attempts exceeded"
  ELSE ""

\* retryConnection: which retry the connection row read at the start of the
\* request gets
RetryMethod(row) ==
  IF Provider(row.providerId).serviceType = "BTCPAY_SERVER" THEN "btcpay"
  ELSE IF row.connectionType = "PAID_SUBSCRIPTION" /\ ~IsNull(row.nwcConnectionString)
    THEN "nwc"
  ELSE "none"

\* retryConnection, and retryBTCPaySetup up to the client construction
RetryDispatch(pr) ==
  IF Val(pr.snap).method = "btcpay"
    THEN IF ~Provider(pr.prov).hostUrl \/ ~Provider(pr.prov).btcpayApiKey
           THEN Respond(pr, 500, "Provider BTCPay configuration incomplete")
           ELSE [pr EXCEPT !.pc = "retry_setup"]
  ELSE IF Val(pr.snap).method = "nwc"
    THEN [pr EXCEPT !.pc = "rpay_load"]
  ELSE Respond(pr, 500, "Unable to determine retry method for this connection")

\* POST /api/connections/:id/retry: read the connection, the two checks
RetryRequestOn(p, id) ==
  /\ Free(p)
  /\ IF RetryPrecheck(id) # ""
       THEN proc' = [proc EXCEPT ![p] =
              Respond(IdleProc, IF id \in DOMAIN conn THEN 400 ELSE 404, RetryPrecheck(id))]
       ELSE /\ RetryMethod(conn[id]) = "nwc" => HistRoom
            /\ proc' = [proc EXCEPT ![p] =
                 [IdleProc EXCEPT !.pc = "retry_update", !.caller = "retry",
                    !.c = id, !.s = conn[id].shopId, !.prov = conn[id].providerId,
                    !.snap = Some([retryCount |-> conn[id].retryCount,
                                   method |-> RetryMethod(conn[id])])]]
  /\ UNCHANGED <<shop, conn, hist>>

\* a manual retry arrives, for a connection id (one past the last row: no
\* such connection)
RetryRequest(p) == \E id \in 1..(Len(conn) + 1) : RetryRequestOn(p, id)

\* update retry count (from the row read before), status PENDING; dispatch
RetryUpdate(p) ==
  LET pr == proc[p] IN
  /\ pr.pc = "retry_update"
  /\ conn' = [conn EXCEPT ![pr.c].retryCount = Val(pr.snap).retryCount + 1,
                          ![pr.c].status = "PENDING"]
  /\ proc' = [proc EXCEPT ![p] = RetryDispatch(pr)]
  /\ UNCHANGED <<shop, hist>>

\* retryBTCPaySetup: one createShopSetup call; shop.update on success, the
\* catch block's connection.update on failure
RetrySetup(p) ==
  LET pr == proc[p] IN
  /\ pr.pc = "retry_setup"
  /\ \E ok \in BOOLEAN, id \in RemoteIds :
       IF ok
         THEN /\ shop' = [shop EXCEPT ![pr.s] = Credentials(id)]
              /\ proc' = [proc EXCEPT ![p] =
                   [pr EXCEPT !.pc = "retry_mark_active", !.setup = Some(id)]]
              /\ UNCHANGED <<conn, hist>>
         ELSE /\ conn' = [conn EXCEPT ![pr.c].status = "FAILED",
                            ![pr.c].setupError = Some("Failed to set up shop on BTCPay Server")]
              /\ proc' = [proc EXCEPT ![p] =
                   Respond(pr, 500, "Failed to set up shop on BTCPay Server")]
              /\ UNCHANGED <<shop, hist>>

\* retryBTCPaySetup: mark connection as ACTIVE
RetryMarkActive(p) ==
  LET pr == proc[p] IN
  /\ pr.pc = "retry_mark_active"
  /\ conn' = [conn EXCEPT ![pr.c].status = "ACTIVE", ![pr.c].setupError = Null]
  /\ proc' = [proc EXCEPT ![p] = Respond(pr, 200, "Connection retry successful")]
  /\ UNCHANGED <<shop, hist>>

\* retryConnectionPayment: load the connection, decrypt the stored wallet
\* secret, call initiateConnectionPayment
RetryPayLoad(p) ==
  LET pr == proc[p] IN
  /\ pr.pc = "rpay_load"
  /\ proc' = [proc EXCEPT ![p] =
       IF pr.c \notin DOMAIN conn
         THEN PayReturn(pr, Failure("Connection not found"))
       ELSE IF IsNull(conn[pr.c].nwcConnectionString)
         THEN PayReturn(pr, Failure("NWC connection string not found"))
       ELSE [pr EXCEPT !.pc = "pay_load",
                       !.nwc = Decrypt(Val(conn[pr.c].nwcConnectionString))]]
  /\ UNCHANGED <<shop, conn, hist>>

\* ----------------------------------------------------------- webhook route
\* verifyWebhookSignature without the comparison of the hash
verifyWebhookSignatureTagOnly(payload, signature, secret) ==
  signature[1] = "sha256"

\* String.prototype.split(sep): the pieces of s between the separators
RECURSIVE Split(_, _)
Split(s, sep) ==
  IF \A i \in DOMAIN s : s[i] # sep
    THEN <<s>>
    ELSE LET i == CHOOSE i \in DOMAIN s : s[i] = sep /\ \A j \in 1..(i - 1) : s[j] # sep
         IN  <<SubSeq(s, 1, i - 1)>> \o Split(SubSeq(s, i + 1, Len(s)), sep)

\* encryptionService.secureCompare(a, b): length check, timingSafeEqual
secureCompare(a, b) == IF Len(a) # Len(b) THEN FALSE ELSE a = b

\* verifyWebhookSignature(payload, signature, secret):
\* const [algorithm, hash] = signature.split('='); a header without "="
\* leaves hash undefined, on which secureCompare throws and answers false
verifyWebhookSignature(payload, signature, secret) ==
  LET parts == Split(signature, "=") IN
  IF parts[1] # <<"sha256">> THEN FALSE
  ELSE IF Len(parts) < 2 THEN FALSE
  ELSE secureCompare(parts[2], HmacSha256(payload, secret))

\* FindShop without its where clause: the first provisioned shop
FindShopAnyStore(storeId) ==
  LET found == {s \in DOMAIN shop : ~IsNull(shop[s].btcpayStoreId)}
  IN IF found = {} THEN 0 ELSE CHOOSE s \in found : \A t \in found : s <= t

\* prisma.shop.findFirst({where: {btcpayStoreId: storeId}}); 0: none
FindShop(storeId) ==
  LET found == {s \in DOMAIN shop : shop[s].btcpayStoreId = Some(storeId)}
  IN IF found = {} THEN 0 ELSE CHOOSE s \in found : \A t \in found : s <= t

\* shop.connections.find(BTCPAY_SERVER provider with a host URL); 0: none
FindBTCPayConnection(shopId) ==
  LET found == {c \in DOMAIN conn :
                  /\ conn[c].shopId = shopId
                  /\ Provider(conn[c].providerId).serviceType = "BTCPAY_SERVER"
                  /\ Provider(conn[c].providerId).hostUrl}
  IN IF found = {} THEN 0 ELSE CHOOSE c \in found : \A d \in found : c <= d

\* POST (webhook), the event switch: the handler the event goes to
WebhookDispatch(s, c, type, userId) ==
  LET at == [IdleProc EXCEPT !.caller = "webhook", !.s = s, !.c = c] IN
  IF type = "store.modified" THEN [at EXCEPT !.pc = "wh_modified"]
  ELSE IF type = "store.user.removed"
    THEN IF Some(userId) = shop[s].btcpayUserId
           THEN [at EXCEPT !.pc = "wh_removed"]
           ELSE Respond(IdleProc, 200, "received")
  ELSE IF type = "store.deleted" THEN [at EXCEPT !.pc = "wh_deleted"]
  ELSE Respond(IdleProc, 200, "received")

\* POST (webhook) verifying every signature, secret configured or not
WebhookEntryAlwaysVerifying(sig, storeId, type, userId) ==
  LET s == FindShop(storeId)
      c == FindBTCPayConnection(s)
  IN
  IF IsNull(sig) THEN Respond(IdleProc, 401, "Missing signature")
  ELSE IF s = 0 THEN Respond(IdleProc, 200, "received")
  ELSE IF c = 0 THEN Respond(IdleProc, 200, "received")
  ELSE IF ~verifyWebhookSignature("body", sig, "secret")
    THEN Respond(IdleProc, 401, "Invalid signature")
  ELSE WebhookDispatch(s, c, type, userId)

\* POST /api/webhooks/btcpay up to the switch on the event type: the
\* handler the request is dispatched to, or the response that ends it
WebhookEntry(sig, storeId, type, userId) ==
  LET s == FindShop(storeId)
      c == FindBTCPayConnection(s)
  IN
  IF IsNull(sig) THEN Respond(IdleProc, 401, "Missing signature")
  ELSE IF s = 0 THEN Respond(IdleProc, 200, "received")
  ELSE IF c = 0 THEN Respond(IdleProc, 200, "received")
  ELSE IF Provider(conn[c].providerId).webhookSecret
          /\ ~verifyWebhookSignature("body", sig, "secret")
    THEN Respond(IdleProc, 401, "Invalid signature")
  ELSE WebhookDispatch(s, c, type, userId)

\* WebhookRequestOf logging a store.modified event once per connection
WebhookRequestDeduplicating(p, sig, storeId, type, userId) ==
  LET next == WebhookEntry(sig, storeId, type, userId)
      row == HistoryRow(next.c, "store_modified_webhook", 0) IN
  /\ Free(p)
  /\ next.pc # "done" => HistRoom
  /\ IF next.pc = "wh_modified"
       THEN /\ hist' = IF \E h \in DOMAIN hist : hist[h] = row THEN hist
                                                                ELSE Append(hist, row)
            /\ proc' = [proc EXCEPT ![p] = Respond(next, 200, "received")]
       ELSE /\ hist' = hist
            /\ proc' = [proc EXCEPT ![p] = next]
  /\ UNCHANGED <<shop, conn>>

\* POST /api/webhooks/btcpay up to the first write of the handler the
\* event goes to; handleStoreModified (one PaymentHistory row) in full
WebhookRequestOf(p, sig, storeId, type, userId) ==
  LET next == WebhookEntry(sig, storeId, type, userId) IN
  /\ Free(p)
  /\ next.pc # "done" => HistRoom
  /\ IF next.pc = "wh_modified"
       THEN /\ hist' = Append(hist, HistoryRow(next.c, "store_modified_webhook", 0))
            /\ proc' = [proc EXCEPT ![p] = Respond(next, 200, "received")]
       ELSE /\ hist' = hist
            /\ proc' = [proc EXCEPT ![p] = next]
  /\ UNCHANGED <<shop, conn>>

\* the `userId` of an event: only removals carry one (0: none)
UserIdInputs(type) ==
  IF type = "store.user.removed" THEN 1..(MaxRemoteIds + 1) ELSE {0}

\* a webhook arrives: its signature header, store id (one past the ids
\* handed out: a store no shop has), event type, user id
WebhookRequest(p) ==
  \E sig \in SigInputs, storeId \in 1..(MaxRemoteIds + 1), type \in EventTypes :
    \E userId \in UserIdInputs(type) :
       WebhookRequestOf(p, sig, storeId, type, userId)

\* WebhookUserRemoved rewriting the connection's latest row when it has one
WebhookUserRemovedRewriting(p) ==
  LET pr == proc[p]
      row == HistoryRow(pr.c, "user_removed_webhook", 0) IN
  /\ pr.pc = "wh_removed"
  /\ conn' = [conn EXCEPT ![pr.c].status = "DISCONNECTED",
                          ![pr.c].setupError = Some("User was removed from BTCPay store")]
  /\ hist' = IF hist = << >> THEN <<row>> ELSE [hist EXCEPT ![Len(hist)] = row]
  /\ proc' = [proc EXCEPT ![p] = Respond(pr, 200, "received")]
  /\ UNCHANGED shop

\* handleUserRemoved: mark connection as DISCONNECTED, log the event
WebhookUserRemoved(p) ==
  LET pr == proc[p] IN
  /\ pr.pc = "wh_removed"
  /\ conn' = [conn EXCEPT ![pr.c].status = "DISCONNECTED",
                          ![pr.c].setupError = Some("User was removed from BTCPay store")]
  /\ hist' = Append(hist, HistoryRow(pr.c, "user_removed_webhook", 0))
  /\ proc' = [proc EXCEPT ![p] = Respond(pr, 200, "received")]
  /\ UNCHANGED shop

\* handleStoreDeleted: mark connection as DISCONNECTED
WebhookStoreDeleted(p) ==
  LET pr == proc[p] IN
  /\ pr.pc = "wh_deleted"
  /\ conn' = [conn EXCEPT ![pr.c].status = "DISCONNECTED",
                          ![pr.c].setupError = Some("Store was deleted from BTCPay Server")]
  /\ proc' = [proc EXCEPT ![p].pc = "wh_deleted_shop"]
  /\ UNCHANGED <<shop, hist>>

\* handleStoreDeleted: clear BTCPay credentials from shop, log the event
WebhookStoreDeletedClear(p) ==
  LET pr == proc[p] IN
  /\ pr.pc = "wh_deleted_shop"
  /\ shop' = [shop EXCEPT ![pr.s] = NoCredentials]
  /\ hist' = Append(hist, HistoryRow(pr.c, "store_deleted_webhook", 0))
  /\ proc' = [proc EXCEPT ![p] = Respond(pr, 200, "received")]
  /\ UNCHANGED conn

\* the response is sent: the request leaves the list, later ones move up
Finish(p) ==
  /\ proc[p].pc = "done"
  /\ proc' = [q \in Procs |-> IF q < p THEN proc[q]
                              ELSE IF q < MaxProcs THEN proc[q + 1] ELSE IdleProc]
  /\ UNCHANGED <<shop, conn, hist>>

Next ==
  \E p \in Procs :
    \/ ShopsRequest(p)
    \/ ShopsCreateConnection(p)
    \/ ShopsActivateFree(p)
    \/ ShopsStoreCredentials(p)
    \/ PayLoad(p)
    \/ PaySend(p)
    \/ CreateStoreRequest(p)
    \/ CreateStoreSetup(p)
    \/ CreateStoreActivate(p)
    \/ RetryRequest(p)
    \/ RetryUpdate(p)
    \/ RetrySetup(p)
    \/ RetryMarkActive(p)
    \/ RetryPayLoad(p)
    \/ WebhookRequest(p)
    \/ WebhookUserRemoved(p)
    \/ WebhookStoreDeleted(p)
    \/ WebhookStoreDeletedClear(p)
    \/ Finish(p)

Spec == Init /\ [][Next]_vars

\* ------------------------------------- payment service on its own: SpecPay
\* initiateConnectionPayment / retryConnectionPayment called directly, on any
\* connection row the table can hold, with collaborators that may throw.

\* `nwcConnectionString` as a caller may pass it, or as it may be stored
NwcArguments == {ValidNwc, "garbage"}

\* connection rows for the payment service: the amount column null, 0 or
\* positive, the wallet secret absent or stored
PayConnections ==
  {[shopId |-> 1, providerId |-> provider, connectionType |-> type,
    status |-> status, subscriptionAmount |-> amount, setupError |-> Null,
    retryCount |-> 0, nwcConnectionString |-> stored] :
     provider \in ProviderIds,
     type \in {"FREE_LISTING", "PAID_SUBSCRIPTION"},
     status \in {"PENDING", "FAILED"},
     amount \in {Null, Some(0), Some(500)},
     stored \in {Null} \cup {Some(Encrypt(n)) : n \in NwcArguments}}

\* the call under way: initiateConnectionPayment(1, nwc) or
\* retryConnectionPayment(1)
PayCalls ==
  {[IdleProc EXCEPT !.pc = "pay_load", !.c = 1, !.nwc = n] : n \in NwcArguments}
    \cup {[IdleProc EXCEPT !.pc = "rpay_load", !.c = 1]}

InitPay ==
  /\ shop = <<NoCredentials>>
  /\ conn \in {<< >>} \cup {<<row>> : row \in PayConnections}
  /\ hist = << >>
  /\ \E call \in PayCalls : proc = [p \in Procs |-> IF p = 1 THEN call ELSE IdleProc]

\* what a collaborator throws: an Error with a message, or another value
ThrownInputs == {<<"Error", "collaborator failed">>, <<"value">>}

\* InTry with the writes after the payment left outside the try block
InTryBeforePayment(pc) == pc \in {"pay_load", "rpay_load"}

\* the try blocks of initiateConnectionPayment and retryConnectionPayment
\* span their whole bodies
InTry(pc) == pc \in {"pay_load", "pay_send", "rpay_load"}

\* catch (error): error instanceof Error ? error.message : 'Unknown error'
InitiateCatch(thrown) ==
  Failure(IF thrown[1] = "Error" THEN thrown[2] ELSE "Unknown error")

\* a collaborator throws: a persistence read or write, encrypt / decrypt.
\* Nothing is written by the call that throws; when it is the connection
\* update after the payment, the PaymentHistory row is already there.
PayThrow(p) ==
  LET pr == proc[p] IN
  /\ pr.pc \in {"pay_load", "pay_send", "rpay_load"}
  /\ \E thrown \in ThrownInputs :
       \/ /\ hist' = hist
          /\ proc' = [proc EXCEPT ![p] =
               IF InTry(pr.pc) THEN PayReturn(pr, InitiateCatch(thrown))
                               ELSE [IdleProc EXCEPT !.pc = "raised"]]
       \/ /\ pr.pc = "pay_send"
          /\ \E lnurl \in BOOLEAN, invoice \in BOOLEAN :
               LET sent == SendNWCPayment(pr.nwc, lnurl, invoice) IN
               /\ hist' = Append(hist, HistoryRow(pr.c,
                             IF sent.result.success THEN "success" ELSE "failed",
                             Val(conn[pr.c].subscriptionAmount)))
               /\ proc' = [proc EXCEPT ![p] =
                    IF InTry(pr.pc)
                      THEN PayReturn([pr EXCEPT !.io = sent.io], InitiateCatch(thrown))
                      ELSE [IdleProc EXCEPT !.pc = "raised"]]
  /\ UNCHANGED <<shop, conn>>

NextPay ==
  \E p \in Procs :
    \/ PayLoad(p)
    \/ PaySend(p)
    \/ RetryPayLoad(p)
    \/ PayThrow(p)

SpecPay == InitPay /\ [][NextPay]_vars

\* ------------------------------------------------- signature verification
\* verifyWebhookSignature on its own: called once with any header of up to
\* MaxHeaderLen bytes, a body and a secret.
MaxHeaderLen == 5

\* the bytes a header is made of: two algorithm tags, the separator, two
\* hex digits
HeaderBytes == {"sha256", "sha1", "=", "0", "1"}

RECURSIVE Headers(_)
Headers(n) ==
  IF n = 0 THEN {<< >>}
  ELSE LET shorter == Headers(n - 1) IN
       shorter \cup {Append(h, b) : h \in {g \in shorter : Len(g) = n - 1}, b \in HeaderBytes}

\* the request bodies and the secrets a provider may hold
Payloads == {"body", "bodx"}

Secrets == {"secret", "other"}

InitSig ==
  /\ shop = << >>
  /\ conn = << >>
  /\ hist = << >>
  /\ \E payload \in Payloads, signature \in Headers(MaxHeaderLen), secret \in Secrets :
       proc = [p \in Procs |->
                 IF p = 1 THEN [IdleProc EXCEPT !.pc = "verify",
                                                !.args = <<payload, signature, secret>>]
                          ELSE IdleProc]

\* const isValid = verifyWebhookSignature(body, signature, provider.webhookSecret)
VerifySignature(p) ==
  LET pr == proc[p] IN
  /\ pr.pc = "verify"
  /\ proc' = [proc EXCEPT ![p] =
       [pr EXCEPT !.pc = "returned",
                  !.res = <<verifyWebhookSignature(pr.args[1], pr.args[2], pr.args[3])>>]]
  /\ UNCHANGED <<shop, conn, hist>>

NextSig == \E p \in Procs : VerifySignature(p)

SpecSig == InitSig /\ [][NextSig]_vars

\* --------------------------------------------------------- provider client
\* BTCPayClient and BTCPayDryRunClient on their own: one operation of a
\* client is called once, by a caller holding a client of its own or by a
\* route that provisions a store.
MaxNow == 1

\* the operations of the provider client
ClientOps ==
  {"createUser", "getUser", "deleteUser", "createStore", "getStore", "updateStore",
   "deleteStore", "addStoreUser", "removeStoreUser", "getStoreUsers", "createWebhook",
   "createShopSetup", "healthCheck"}

\* process.env.BTCPAY_DRY_RUN: unset, 'true' or 'false'
EnvInputs == {Null, Some("true"), Some("false")}

\* the constructor's optional `dryRun` argument
DryRunArguments == {Null, Some(TRUE), Some(FALSE)}

\* how the BTCPay server answers a request: 0 for success, otherwise the
\* request of the operation (first, second or third) that fails
ServerAnswers == 0..3

\* this.dryRunMode = dryRun ?? (process.env.BTCPAY_DRY_RUN === 'true')
DryRunMode(dryRun, env) ==
  IF IsNull(dryRun) THEN env = Some("true") ELSE Val(dryRun)

\* createBTCPayDryRunClient(hostUrl, apiKey, dryRun)
createBTCPayDryRunClient(dryRun, env) == [dryRunMode |-> DryRunMode(dryRun, env)]

\* createBTCPayClient(hostUrl, apiKey): a BTCPayClient, which has no
\* dry-run mode
createBTCPayClient == [dryRunMode |-> FALSE]

\* mockUser with the id a server hands out
mockUserUnmarked(email, now) ==
  [kind |-> "user", id |-> <<"user_", now>>, email |-> email]

\* mockUser: id `dryrun_user_${Date.now()}`
mockUser(email, now) ==
  [kind |-> "user", id |-> <<"dryrun_", "user_", now>>, email |-> email]

\* mockStore: id `dryrun_store_${Date.now()}`
mockStore(name, now) ==
  [kind |-> "store", id |-> <<"dryrun_", "store_", now>>, name |-> name]

\* an operation of BTCPayDryRunClient in dry-run mode: what it returns,
\* and the requests it sends (calls: the remote operations issued, in order)
DryRunCall(op, now) ==
  [requests |-> 0,
   calls |-> << >>,
   value |->
     CASE op = "createUser" -> mockUser("email", now)
       [] op = "getUser" -> mockUser("dryrun@example.com", now)
       [] op = "createStore" -> mockStore("name", now)
       [] op = "getStore" -> mockStore("Dry Run Store", now)
       [] op = "updateStore" -> mockStore("Updated Store", now)
       [] op = "getStoreUsers" ->
            [kind |-> "list",
             items |-> <<[userId |-> <<"dryrun_", "user_", "123">>, role |-> "Owner"]>>]
       [] op = "createWebhook" ->
            [kind |-> "webhook", id |-> <<"dryrun_", "webhook_", "123">>]
       [] op = "createShopSetup" ->
            [kind |-> "setup", user |-> mockUser("email", now),
             store |-> mockStore("name", now)]
       [] op = "healthCheck" -> [kind |-> "boolean", v |-> TRUE]
       [] OTHER -> [kind |-> "void"]]

\* createShopSetup: Step 1 create user, Step 2 create store, Step 3 add
\* user to store as Owner
SetupSteps == <<"createUser", "createStore", "addStoreUser">>

\* createShopSetupCalls deleting the user when a later step fails
createShopSetupCallsRollingBack(answer) ==
  IF answer = 0 THEN SetupSteps
  ELSE IF answer = 1 THEN SubSeq(SetupSteps, 1, 1)
  ELSE SubSeq(SetupSteps, 1, answer) \o <<"deleteUser">>

\* createShopSetup: the remote operations it issues, in order; the first
\* that throws ends the try block, the catch block only rethrows
createShopSetupCalls(answer) ==
  IF answer = 0 THEN SetupSteps ELSE SubSeq(SetupSteps, 1, answer)

\* an operation of BTCPayClient: this.request(...) once, createShopSetup
\* up to three times (createUser, createStore, addStoreUser); a failed
\* request throws, except in healthCheck
BTCPayClientCall(op, answer) ==
  LET user == [kind |-> "user", id |-> <<"user_", 1>>, email |-> "email"]
      store == [kind |-> "store", id |-> <<"store_", 1>>, name |-> "name"]
  IN
  IF op = "createShopSetup"
    THEN [requests |-> Len(createShopSetupCalls(answer)),
          calls |-> createShopSetupCalls(answer),
          value |-> IF answer = 0
                      THEN [kind |-> "setup", user |-> user, store |-> store]
                      ELSE [kind |-> "thrown"]]
    ELSE [requests |-> 1,
          calls |-> <<op>>,
          value |->
            IF op = "healthCheck" THEN [kind |-> "boolean", v |-> answer = 0]
            ELSE IF answer # 0 THEN [kind |-> "thrown"]
            ELSE CASE op \in {"createUser", "getUser"} -> user
                   [] op \in {"createStore", "getStore", "updateStore"} -> store
                   [] op = "getStoreUsers" ->
                        [kind |-> "list",
                         items |-> <<[userId |-> <<"user_", 1>>, role |-> "Owner"]>>]
                   [] op = "createWebhook" -> [kind |-> "webhook", id |-> <<"webhook_", 1>>]
                   [] OTHER -> [kind |-> "void"]]

\* BTCPayDryRunClient.<op>: if (this.dryRunMode) ... return super.<op>(...)
ClientCall(client, op, now, answer) ==
  IF client.dryRunMode THEN DryRunCall(op, now) ELSE BTCPayClientCall(op, answer)

\* the client a route builds before it calls createShopSetup: create-store
\* (which shop creation calls over HTTP) and the manual retry
RouteClient(site, env) ==
  IF site = "retry" THEN createBTCPayClient ELSE createBTCPayDryRunClient(Null, env)

\* args of a call: <<site, op, dryRun, env, now>>; site "client" is a
\* caller with a BTCPayDryRunClient of its own
DryCalls ==
  {<<"client", op, dryRun, env, now>> :
     op \in ClientOps, dryRun \in DryRunArguments, env \in EnvInputs, now \in 0..MaxNow}
    \cup {<<site, "createShopSetup", Null, env, now>> :
            site \in {"shops", "create-store", "retry"}, env \in EnvInputs, now \in 0..MaxNow}

InitDry ==
  /\ shop = << >>
  /\ conn = << >>
  /\ hist = << >>
  /\ \E call \in DryCalls :
       proc = [p \in Procs |->
                 IF p = 1 THEN [IdleProc EXCEPT !.pc = "call", !.args = call]
                          ELSE IdleProc]

\* a caller invokes one operation of its BTCPayDryRunClient
ClientOperation(p) ==
  LET pr == proc[p] IN
  /\ pr.pc = "call"
  /\ pr.args[1] = "client"
  /\ \E answer \in ServerAnswers :
       proc' = [proc EXCEPT ![p] =
         [pr EXCEPT !.pc = "returned",
                    !.res = <<ClientCall(createBTCPayDryRunClient(pr.args[3], pr.args[4]),
                                         pr.args[2], pr.args[5], answer)>>]]
  /\ UNCHANGED <<shop, conn, hist>>

\* a route builds its client and calls btcpayClient.createShopSetup
RouteShopSetup(p) ==
  LET pr == proc[p] IN
  /\ pr.pc = "call"
  /\ pr.args[1] # "client"
  /\ \E answer \in ServerAnswers :
       proc' = [proc EXCEPT ![p] =
         [pr EXCEPT !.pc = "returned",
                    !.res = <<ClientCall(RouteClient(pr.args[1], pr.args[4]),
                                         pr.args[2], pr.args[5], answer)>>]]
  /\ UNCHANGED <<shop, conn, hist>>

NextDry ==
  \E p \in Procs :
    \/ ClientOperation(p)
    \/ RouteShopSetup(p)

SpecDry == InitDry /\ [][NextDry]_vars

\* ------------------------------------------------------------------- typing
Statuses == {"PENDING", "ACTIVE", "PENDING_SETUP", "FAILED", "DISCONNECTED"}

TypeOK ==
  /\ Len(shop) <= MaxShops
  /\ Len(conn) <= Len(shop)
  /\ Len(hist) <= MaxHist
  /\ \A s \in DOMAIN shop :
       /\ shop[s].btcpayStoreId \in {Null} \cup {Some(i) : i \in RemoteIds}
       /\ shop[s].btcpayUserId \in {Null} \cup {Some(i) : i \in RemoteIds}
       /\ shop[s].btcpayUsername \in {Null, Some("username")}
  /\ \A c \in DOMAIN conn :
       /\ conn[c].shopId \in DOMAIN shop
       /\ conn[c].providerId \in ProviderIds
       /\ conn[c].connectionType \in {"FREE_LISTING", "PAID_SUBSCRIPTION"}
       /\ conn[c].status \in Statuses
       /\ conn[c].retryCount \in Nat
       /\ Len(conn[c].setupError) <= 1
       /\ Len(conn[c].subscriptionAmount) <= 1
       /\ Len(conn[c].nwcConnectionString) <= 1
  /\ \A h \in DOMAIN hist : hist[h].connectionId \in DOMAIN conn
  /\ \A p \in Procs :
       /\ proc[p].pc \in {"idle", "done", "returned", "verify", "call",
                          "shops_conn", "shops_free",
                          "shops_creds", "pay_load", "pay_send", "rpay_load",
                          "cs_setup", "cs_activate", "retry_update", "retry_setup",
                          "retry_mark_active", "wh_removed", "wh_deleted",
                          "wh_deleted_shop"}
       /\ proc[p].caller \in {"none", "shops", "retry", "webhook"}
       /\ proc[p].s \in 0..MaxShops
       /\ proc[p].c \in 0..MaxShops
       /\ proc[p].io \in 0..3
       /\ Len(proc[p].ret) <= 1

\* ================================================================== claims
\* C1: in every reachable state every connection's retryCount is at most 5,
\* whatever creation requests, provisioning attempts, manual retries and
\* webhooks have run or are running
RetryCountBounded == \A c \in DOMAIN conn : conn[c].retryCount <= maxRetries

\* a fifth manual retry has been accepted and counted
RetryCountAtLimit ==
  \E c \in DOMAIN conn : conn[c].retryCount = maxRetries /\ conn[c].status = "PENDING"

\* C2 (as the specification states it): no step stores a retryCount lower
\* than the one the connection held
RetryCountNonDecreasing ==
  [][\A c \in DOMAIN conn : conn'[c].retryCount >= conn[c].retryCount]_vars

\* C3: a manual retry requested on a connection whose retryCount is 5 is
\* answered 400, with "Maximum retry attempts exceeded" when the status
\* would have let it through; no table changes and the request ends there
\* (no provisioning, no payment)
RetryAtLimitRejected ==
  [][\A p \in Procs, id \in DOMAIN conn :
       (RetryRequestOn(p, id) /\ conn[id].retryCount = maxRetries) =>
          /\ conn' = conn /\ shop' = shop /\ hist' = hist
          /\ proc'[p].pc = "done"
          /\ Val(proc'[p].ret).code = 400
          /\ conn[id].status \in {"FAILED", "PENDING_SETUP"} =>
               Val(proc'[p].ret).body = "Maximum retry attempts exceeded"]_vars

\* a retry was refused for the limit on a connection that has used its five
RetryLimitExceededSeen ==
  \E p \in Procs, c \in DOMAIN conn :
    /\ proc[p].pc = "done"
    /\ Val(proc[p].ret) = [code |-> 400, body |-> "Maximum retry attempts exceeded"]
    /\ conn[c].retryCount = maxRetries
    /\ conn[c].status \in {"FAILED", "PENDING_SETUP"}

\* C4 (as the specification states it): a connection whose retryCount has
\* reached 5 stays at the limit, so that no manual retry is accepted again
RetryLimitPermanent ==
  [][\A c \in DOMAIN conn :
       conn[c].retryCount >= maxRetries => conn'[c].retryCount >= maxRetries]_vars

\* C5: a manual retry goes ahead only from FAILED or PENDING_SETUP; on a
\* connection that is PENDING, ACTIVE or DISCONNECTED it is answered 400
\* "Connection is not in a failed state", no table changes and the
\* request ends there
RetryOnlyWhenFailed ==
  [][\A p \in Procs, id \in DOMAIN conn :
       RetryRequestOn(p, id) =>
          /\ proc'[p].pc # "done" => conn[id].status \in {"FAILED", "PENDING_SETUP"}
          /\ conn[id].status \in {"PENDING", "ACTIVE", "DISCONNECTED"} =>
               /\ conn' = conn /\ shop' = shop /\ hist' = hist
               /\ proc'[p].pc = "done"
               /\ Val(proc'[p].ret) =
                    [code |-> 400, body |-> "Connection is not in a failed state"]]_vars

\* a retry was refused on a disconnected connection
RetryRefusedSeen ==
  \E p \in Procs, c \in DOMAIN conn :
    /\ proc[p].pc = "done"
    /\ Val(proc[p].ret) = [code |-> 400, body |-> "Connection is not in a failed state"]
    /\ conn[c].status = "DISCONNECTED"

\* C6: a shop creation that names a provider and no amount creates a
\* FREE_LISTING connection in status PENDING, its next step sets that
\* connection ACTIVE and is always ready to run, and no request is ever
\* inside initiateConnectionPayment / retryConnectionPayment for a
\* connection that is not a PAID_SUBSCRIPTION
FreeListingActivated ==
  /\ [](\A p \in Procs : proc[p].pc = "shops_free" => ENABLED ShopsActivateFree(p))
  /\ [][\A p \in Procs :
          /\ (ShopsCreateConnection(p) /\ proc[p].prov # 0 /\ ~Truthy(proc[p].amount)) =>
               /\ conn' = Append(conn, conn'[Len(conn')])
               /\ conn'[Len(conn')].connectionType = "FREE_LISTING"
               /\ conn'[Len(conn')].status = "PENDING"
               /\ proc'[p].pc = "shops_free"
               /\ proc'[p].c = Len(conn')
          /\ ShopsActivateFree(p) =>
               /\ conn[proc[p].c].connectionType = "FREE_LISTING"
               /\ conn'[proc[p].c].status = "ACTIVE"
          /\ proc'[p].pc \in {"pay_load", "pay_send", "rpay_load"} =>
               conn'[proc'[p].c].connectionType = "PAID_SUBSCRIPTION"]_vars

\* a free listing is ACTIVE, its creation answered, nothing in the ledger
FreeListingActive ==
  \E p \in Procs, c \in DOMAIN conn :
    /\ conn[c].connectionType = "FREE_LISTING"
    /\ conn[c].status = "ACTIVE"
    /\ proc[p].pc = "done"
    /\ Val(proc[p].ret) = [code |-> 201, body |-> "shop"]
    /\ hist = << >>

\* C7: initiateConnectionPayment on a connection whose subscriptionAmount is
\* null returns {success: false, error: "No subscription amount configured"},
\* has made no outbound call and has written nothing
NoAmountNoPayment ==
  [][\A p \in Procs :
       (/\ PayLoad(p)
        /\ proc[p].c \in DOMAIN conn
        /\ IsNull(conn[proc[p].c].subscriptionAmount)) =>
          /\ proc'[p].pc = "returned"
          /\ proc'[p].res = Some([success |-> FALSE,
                                  error |-> "No subscription amount configured"])
          /\ proc'[p].io = 0
          /\ conn' = conn /\ hist' = hist /\ shop' = shop]_vars

\* the call returned that failure for a connection without an amount
NoAmountReturned ==
  \E p \in Procs :
    /\ proc[p].pc = "returned"
    /\ proc[p].res = Some([success |-> FALSE, error |-> "No subscription amount configured"])
    /\ proc[p].io = 0
    /\ conn # << >>
    /\ IsNull(conn[1].subscriptionAmount)

\* C8 (as the specification states it): when the payment of a newly created
\* PAID_SUBSCRIPTION connection ends with "Provider lightning address not
\* configured", the connection is FAILED
NoAddressMarksFailed ==
  [][\A p \in Procs :
       (/\ PayLoad(p)
        /\ proc[p].caller = "shops"
        /\ PayPrecheck(proc[p].c) = "Provider lightning address not configured") =>
          conn'[proc[p].c].status = "FAILED"]_vars

\* C9: initiateConnectionPayment and retryConnectionPayment never raise:
\* every call, whatever the connection row and the argument and whichever
\* collaborator throws, runs on until it has returned a PaymentResult, whose
\* error is a text when success is false
PaymentNeverRaises ==
  /\ \A p \in Procs :
       /\ proc[p].pc # "raised"
       /\ proc[p].pc = "returned" =>
            /\ ~IsNull(proc[p].res)
            /\ Val(proc[p].res).success \in BOOLEAN
            /\ ~Val(proc[p].res).success => Val(proc[p].res).error # ""
  /\ (\A p \in Procs : proc[p].pc \in {"idle", "returned"}) \/ ENABLED NextPay

\* a collaborator threw after the payment was recorded, and the call
\* returned the failure
ThrowReturned ==
  \E p \in Procs :
    /\ proc[p].pc = "returned"
    /\ proc[p].res = Some([success |-> FALSE, error |-> "collaborator failed"])
    /\ hist # << >>

\* C10 (amended): a store.deleted webhook that carries a signature header
\*  - for a store id that the first shop holding it shares with a connection
\*    of that shop to a BTCPay provider with a host URL, and with a
\*    signature that verifies when the provider has a webhook secret: sets
\*    that connection DISCONNECTED, then nulls the shop's store id, user id
\*    and username, and answers 200;
\*  - for a store id no shop holds: changes no table and answers 200.
StoreDeletedDisconnects ==
  [][\A p \in Procs :
       /\ (proc[p].pc = "idle" /\ proc'[p].pc \in {"done", "wh_deleted"}) =>
          \A sig \in SigInputs \ {Null}, storeId \in 1..(MaxRemoteIds + 1) :
            WebhookRequestOf(p, sig, storeId, "store.deleted", 0) =>
              LET matching == {s \in DOMAIN shop : shop[s].btcpayStoreId = Some(storeId)}
                  s == CHOOSE s \in matching : \A t \in matching : s <= t
                  btcpay == {c \in DOMAIN conn :
                               /\ conn[c].shopId = s
                               /\ Provider(conn[c].providerId).serviceType = "BTCPAY_SERVER"
                               /\ Provider(conn[c].providerId).hostUrl}
                  c == CHOOSE c \in btcpay : \A d \in btcpay : c <= d
              IN  IF matching = {}
                    THEN /\ conn' = conn /\ shop' = shop /\ hist' = hist
                         /\ proc'[p].pc = "done"
                         /\ Val(proc'[p].ret) = [code |-> 200, body |-> "received"]
                  ELSE IF /\ btcpay # {}
                          /\ Provider(conn[c].providerId).webhookSecret =>
                               sig = SignatureHeader(HmacSha256("body", "secret"))
                    THEN /\ proc'[p].pc = "wh_deleted"
                         /\ proc'[p].s = s
                         /\ proc'[p].c = c
                  ELSE proc'[p].pc = "done"
       /\ WebhookStoreDeleted(p) =>
            /\ conn'[proc[p].c].status = "DISCONNECTED"
            /\ proc'[p].pc = "wh_deleted_shop"
            /\ proc'[p].s = proc[p].s
       /\ WebhookStoreDeletedClear(p) =>
            /\ shop'[proc[p].s].btcpayStoreId = Null
            /\ shop'[proc[p].s].btcpayUserId = Null
            /\ shop'[proc[p].s].btcpayUsername = Null
            /\ proc'[p].pc = "done"
            /\ Val(proc'[p].ret) = [code |-> 200, body |-> "received"]]_vars

\* the handler has run to its end: connection DISCONNECTED, credentials
\* gone, the event in the ledger, the webhook answered
StoreDeletedHandled ==
  \E p \in Procs, c \in DOMAIN conn :
    /\ proc[p].pc = "done"
    /\ Val(proc[p].ret) = [code |-> 200, body |-> "received"]
    /\ conn[c].status = "DISCONNECTED"
    /\ conn[c].setupError = Some("Store was deleted from BTCPay Server")
    /\ shop[conn[c].shopId].btcpayStoreId = Null
    /\ shop[conn[c].shopId].btcpayUserId = Null
    /\ shop[conn[c].shopId].btcpayUsername = Null
    /\ \E h \in DOMAIN hist : hist[h].status = "store_deleted_webhook"

\* C10 (as the specification states it): a store.deleted webhook, correctly
\* signed, for a store id some shop holds, always disconnects
StoreDeletedWheneverMatching ==
  [][\A p \in Procs, storeId \in 1..(MaxRemoteIds + 1) :
       (/\ WebhookRequestOf(p, SignatureHeader(HmacSha256("body", "secret")),
                            storeId, "store.deleted", 0)
        /\ \E s \in DOMAIN shop : shop[s].btcpayStoreId = Some(storeId)) =>
          proc'[p].pc = "wh_deleted"]_vars

\* the provider a webhook for `storeId` is matched to has a webhook secret
SecretFor(storeId) ==
  LET matching == {s \in DOMAIN shop : shop[s].btcpayStoreId = Some(storeId)}
      s == CHOOSE s \in matching : \A t \in matching : s <= t
      btcpay == {c \in DOMAIN conn :
                   /\ conn[c].shopId = s
                   /\ Provider(conn[c].providerId).serviceType = "BTCPAY_SERVER"
                   /\ Provider(conn[c].providerId).hostUrl}
      c == CHOOSE c \in btcpay : \A d \in btcpay : c <= d
  IN  /\ matching # {}
      /\ btcpay # {}
      /\ Provider(conn[c].providerId).webhookSecret

\* C11: a webhook request without a signature header, or whose header does
\* not verify against the webhook secret of the provider it is matched to,
\* is answered 401 before any handler is entered, and the step that answers
\* a request 401 changes no connection, no shop and no PaymentHistory row
UnsignedWebhookRejected ==
  /\ [](\A sig \in SigInputs \ {SignatureHeader(HmacSha256("body", "secret"))},
           storeId \in 1..(MaxRemoteIds + 1), type \in EventTypes :
          \A userId \in UserIdInputs(type) :
            (sig = << >> \/ SecretFor(storeId)) =>
              LET next == WebhookEntry(sig, storeId, type, userId) IN
              next.pc = "done" /\ Val(next.ret).code = 401)
  /\ [][\A p \in Procs :
          (/\ proc[p].pc = "idle"
           /\ proc'[p].pc = "done"
           /\ Val(proc'[p].ret).code = 401) =>
            conn' = conn /\ shop' = shop /\ hist' = hist]_vars

\* a wrongly signed webhook for the store of a provisioned shop was refused
InvalidSignatureSeen ==
  \E p \in Procs, c \in DOMAIN conn :
    /\ proc[p].pc = "done"
    /\ Val(proc[p].ret) = [code |-> 401, body |-> "Invalid signature"]
    /\ Provider(conn[c].providerId).webhookSecret
    /\ ~IsNull(shop[conn[c].shopId].btcpayStoreId)

\* the provider a webhook for `storeId` is matched to has no webhook secret
NoSecretFor(storeId) ==
  LET matching == {s \in DOMAIN shop : shop[s].btcpayStoreId = Some(storeId)}
      s == CHOOSE s \in matching : \A t \in matching : s <= t
      btcpay == {c \in DOMAIN conn :
                   /\ conn[c].shopId = s
                   /\ Provider(conn[c].providerId).serviceType = "BTCPAY_SERVER"
                   /\ Provider(conn[c].providerId).hostUrl}
      c == CHOOSE c \in btcpay : \A d \in btcpay : c <= d
  IN  /\ matching # {}
      /\ btcpay # {}
      /\ ~Provider(conn[c].providerId).webhookSecret

\* C12: when the matched provider has no webhook secret the signature is not
\* verified: whatever value the header carries, a store.modified,
\* store.deleted or store.user.removed (of the shop's user) event reaches its
\* handler, and the store.deleted handler disconnects the connection
NoSecretSkipsVerification ==
  /\ [](\A sig \in SigInputs \ {<< >>}, storeId \in 1..(MaxRemoteIds + 1) :
          NoSecretFor(storeId) =>
            /\ WebhookEntry(sig, storeId, "store.modified", 0).pc = "wh_modified"
            /\ WebhookEntry(sig, storeId, "store.deleted", 0).pc = "wh_deleted"
            /\ \A userId \in 1..MaxRemoteIds :
                 shop[FindShop(storeId)].btcpayUserId = Some(userId) =>
                   WebhookEntry(sig, storeId, "store.user.removed", userId).pc = "wh_removed")
  /\ [][\A p \in Procs :
          WebhookStoreDeleted(p) =>
            conn'[proc[p].c].status = "DISCONNECTED"]_vars

\* a store.deleted event is past the signature step for a connection whose
\* provider has no webhook secret
UnverifiedEventHandled ==
  \E p \in Procs :
    /\ proc[p].pc = "wh_deleted_shop"
    /\ ~Provider(conn[proc[p].c].providerId).webhookSecret
    /\ conn[proc[p].c].status = "DISCONNECTED"

\* C13: verifyWebhookSignature(B, header, S) accepts exactly the header
\* sha256=<hmac_sha256(B, S)>: any other header (another tag, a hash part
\* that differs in a byte or in length) and any other body is rejected
SignatureExact ==
  \A p \in Procs :
    (proc[p].pc = "returned" /\ proc[p].args # << >>) =>
      (Val(proc[p].res) <=>
         proc[p].args[2] = SignatureHeader(HmacSha256(proc[p].args[1], proc[p].args[3])))

\* C14: DISCONNECTED is one-way: no step of a manual retry, of store
\* provisioning, of a payment or of a webhook takes a connection whose
\* status is DISCONNECTED to another status
DisconnectedIsFinal ==
  [][\A c \in DOMAIN conn :
       conn[c].status = "DISCONNECTED" => conn'[c].status = "DISCONNECTED"]_vars

\* the id of a returned value carries the prefix dryrun_
HasSyntheticId(v) ==
  "id" \in DOMAIN v /\ v.id[1] = "dryrun_"

\* a call of operation `op` on a BTCPayDryRunClient in dry-run mode returned
DryRunReturned(p, op) ==
  /\ proc[p].pc = "returned"
  /\ proc[p].args # << >>
  /\ proc[p].args[1] = "client"
  /\ proc[p].args[2] = op
  /\ DryRunMode(proc[p].args[3], proc[p].args[4])

\* C15 as stated: in dry-run mode every operation of the client sends no
\* request and returns a value whose id starts with dryrun_
DryRunEveryIdSynthetic ==
  \A p \in Procs, op \in ClientOps :
    DryRunReturned(p, op) =>
      /\ Val(proc[p].res).requests = 0
      /\ HasSyntheticId(Val(proc[p].res).value)

\* C15: in dry-run mode every operation of the client sends no request;
\* createUser, getUser, createStore, getStore, updateStore and createWebhook
\* return a value whose id starts with dryrun_, createShopSetup a user and a
\* store whose ids do, getStoreUsers users whose userId does; deleteUser,
\* deleteStore, addStoreUser and removeStoreUser return nothing and
\* healthCheck returns true
DryRunNoRequestIdsSynthetic ==
  \A p \in Procs, op \in ClientOps :
    DryRunReturned(p, op) =>
      LET value == Val(proc[p].res).value IN
      /\ Val(proc[p].res).requests = 0
      /\ op \in {"createUser", "getUser", "createStore", "getStore", "updateStore",
                 "createWebhook"} => HasSyntheticId(value)
      /\ op = "createShopSetup" =>
           /\ value.kind = "setup"
           /\ HasSyntheticId(value.user)
           /\ HasSyntheticId(value.store)
      /\ op = "getStoreUsers" =>
           /\ value.kind = "list"
           /\ \A i \in DOMAIN value.items : value.items[i].userId[1] = "dryrun_"
      /\ op \in {"deleteUser", "deleteStore", "addStoreUser", "removeStoreUser"} =>
           value.kind = "void"
      /\ op = "healthCheck" => value = [kind |-> "boolean", v |-> TRUE]

\* createShopSetup returned from a client put in dry-run mode by the
\* environment alone
DryRunSetupReturned ==
  \E p \in Procs :
    /\ DryRunReturned(p, "createShopSetup")
    /\ proc[p].args[3] = Null
    /\ HasSyntheticId(Val(proc[p].res).value.store)

\* C16: while BTCPAY_DRY_RUN is 'true', the createShopSetup call of shop
\* creation, of store provisioning and of a manual retry sends no request
\* to the BTCPay server
DryRunNoRealRequest ==
  \A p \in Procs :
    (/\ proc[p].pc = "returned"
     /\ proc[p].args # << >>
     /\ proc[p].args[1] \in {"shops", "create-store", "retry"}
     /\ proc[p].args[4] = Some("true")) =>
      Val(proc[p].res).requests = 0

\* C17: when createShopSetup succeeds in a create-store request (on the
\* first attempt, or on the second), the shop update that follows leaves the
\* shop's store id and user id non-null, and the connection update that
\* follows leaves the connection ACTIVE with setupError null
SetupSuccessActivates ==
  /\ [][\A p \in Procs :
          (CreateStoreSetup(p) /\ proc'[p].pc = "cs_activate") =>
            /\ ~IsNull(shop'[proc[p].s].btcpayStoreId)
            /\ ~IsNull(shop'[proc[p].s].btcpayUserId)]_vars
  /\ [][\A p \in Procs :
          CreateStoreActivate(p) =>
            \A c \in DOMAIN conn :
              (conn[c].shopId = proc[p].s /\ conn[c].providerId = proc[p].prov) =>
                /\ conn'[c].status = "ACTIVE"
                /\ conn'[c].setupError = Null]_vars

\* create-store answered success for a paid connection no payment was
\* recorded for: the connection is ACTIVE, the shop holds its credentials
SetupSuccessSeen ==
  \E p \in Procs, c \in DOMAIN conn :
    /\ proc[p].pc \in {"done", "shops_creds"}
    /\ hist = << >>
    /\ conn[c].connectionType = "PAID_SUBSCRIPTION"
    /\ conn[c].status = "ACTIVE"
    /\ conn[c].setupError = Null
    /\ ~IsNull(shop[conn[c].shopId].btcpayStoreId)
    /\ ~IsNull(shop[conn[c].shopId].btcpayUserId)

\* C18: the provisioning loop of create-store calls createShopSetup at most
\* 2 times whatever the calls answer; when both calls fail the connection
\* is left PENDING_SETUP with a setupError, and a manual retry arriving then
\* passes both checks of the retry route (its retryCount is below 5)
SetupFailureRetryable ==
  [][\A p \in Procs :
       CreateStoreSetup(p) =>
         /\ \A outs \in [1..(setupMaxRetries + 1) -> BOOLEAN] :
              /\ SetupLoop(outs, 0, 0).calls <= 2
              /\ SetupLoop(outs, 0, 0).ok <=> \E i \in DOMAIN outs : outs[i]
         /\ proc'[p].pc # "cs_activate" =>
              LET c == FindConnection(proc[p].s, proc[p].prov) IN
              c # 0 =>
                /\ conn'[c].status = "PENDING_SETUP"
                /\ ~IsNull(conn'[c].setupError)
                /\ conn'[c].retryCount < maxRetries
                /\ c \in DOMAIN conn'
                /\ CanRetry(conn'[c].status)
                /\ ~RetryLimitReached(conn'[c].retryCount)]_vars

\* a manual retry was accepted for a connection both provisioning calls
\* failed for
SetupFailureRetried ==
  \E p \in Procs :
    /\ proc[p].pc = "retry_update"
    /\ conn[proc[p].c].status = "PENDING_SETUP"
    /\ conn[proc[p].c].setupError = Some("Failed to set up shop on BTCPay Server")
    /\ conn[proc[p].c].retryCount = setupMaxRetries

\* C19: a store.modified webhook changes no connection and no shop; when
\* it is processed (the header is present, the store is matched to a shop
\* and a connection and the signature passes) it appends exactly one
\* PaymentHistory row 'store_modified_webhook' for the connection, whatever
\* rows are there already; when it is not processed it appends none
StoreModifiedOnlyLogs ==
  [][\A p \in Procs :
       (proc[p].pc = "idle" /\ proc'[p].pc = "done") =>
         \A sig \in SigInputs, storeId \in 1..(MaxRemoteIds + 1) :
           WebhookRequestOf(p, sig, storeId, "store.modified", 0) =>
             LET next == WebhookEntry(sig, storeId, "store.modified", 0) IN
             /\ conn' = conn
             /\ shop' = shop
             /\ IF next.pc = "wh_modified"
                  THEN /\ Len(hist') = Len(hist) + 1
                       /\ SubSeq(hist', 1, Len(hist)) = hist
                       /\ hist'[Len(hist')] =
                            HistoryRow(next.c, "store_modified_webhook", 0)
                  ELSE hist' = hist]_vars

\* the same store.modified event was delivered twice: two audit rows
StoreModifiedTwice ==
  /\ Len(hist) = 2
  /\ hist[1] = hist[2]
  /\ hist[1].status = "store_modified_webhook"

\* C20: in a shop creation that needs a payment and provisioning, no user
\* or store is created at the provider (createShopSetup does not succeed)
\* for a paid connection that the payment attempt left FAILED
NoSetupAfterFailedPayment ==
  [][\A p \in Procs :
       (/\ CreateStoreSetup(p)
        /\ proc[p].caller = "shops"
        /\ proc'[p].pc = "cs_activate") =>
         \A c \in DOMAIN conn :
           (/\ conn[c].shopId = proc[p].s
            /\ conn[c].providerId = proc[p].prov
            /\ conn[c].connectionType = "PAID_SUBSCRIPTION") =>
             conn[c].status # "FAILED"]_vars

\* C21: every step of a shop creation or of a manual retry at which the
\* payment or the provisioning fails leaves the connection FAILED or
\* PENDING_SETUP with a setupError
FailureRecordedOnConnection ==
  [][\A p \in Procs :
       (/\ proc[p].caller \in {"shops", "retry"}
        /\ proc[p].c \in DOMAIN conn
        /\ \/ PayLoad(p) /\ PayPrecheck(proc[p].c) # ""
           \/ PaySend(p) /\ hist'[Len(hist')].status = "failed"
           \/ RetryPayLoad(p) /\ proc'[p].pc = "done"
           \/ RetrySetup(p) /\ proc'[p].pc = "done"
           \/ CreateStoreSetup(p) /\ proc'[p].pc # "cs_activate") =>
         /\ conn'[proc[p].c].status \in {"FAILED", "PENDING_SETUP"}
         /\ ~IsNull(conn'[proc[p].c].setupError)]_vars

\* C22: when the step that ends an accepted manual retry is taken, the
\* stored status of the connection is the outcome of the sub-operation
\* (ACTIVE, FAILED or PENDING_SETUP), never the PENDING the retry wrote
RetryEndsSettled ==
  [][\A p \in Procs :
       (/\ proc[p].caller = "retry"
        /\ proc'[p].pc = "done"
        /\ \/ RetryUpdate(p)
           \/ RetrySetup(p)
           \/ RetryMarkActive(p)
           \/ RetryPayLoad(p)
           \/ PayLoad(p)
           \/ PaySend(p)) =>
         conn'[proc[p].c].status \in {"ACTIVE", "FAILED", "PENDING_SETUP"}]_vars

\* C23: createShopSetup on a client that is not in dry-run mode issues
\* createUser, createStore, addStoreUser in that order and stops at the
\* first that fails: the calls issued are a non-empty prefix of the three,
\* the result is a user and a store only when all three were issued and
\* otherwise the call throws, and no deleteUser or deleteStore is issued
SetupStepsInOrder ==
  \A p \in Procs :
    (/\ proc[p].pc = "returned"
     /\ proc[p].args # << >>
     /\ proc[p].args[2] = "createShopSetup"
     /\ Val(proc[p].res).requests > 0) =>
      LET calls == Val(proc[p].res).calls
          value == Val(proc[p].res).value
      IN  /\ Len(calls) \in 1..Len(SetupSteps)
          /\ calls = SubSeq(SetupSteps, 1, Len(calls))
          /\ value.kind \in {"setup", "thrown"}
          /\ value.kind = "setup" => calls = SetupSteps
          /\ \A i \in DOMAIN calls : calls[i] \notin {"deleteUser", "deleteStore"}

\* createShopSetup failed at its second step: the user was created, the
\* store was not, nothing further was called
SetupFailedAtStore ==
  \E p \in Procs :
    /\ proc[p].pc = "returned"
    /\ proc[p].args # << >>
    /\ proc[p].args[2] = "createShopSetup"
    /\ Val(proc[p].res).calls = <<"createUser", "createStore">>
    /\ Val(proc[p].res).value.kind = "thrown"

\* C24: the step of a payment or of a provisioning attempt that sets a
\* connection ACTIVE leaves its setupError null
ActiveClearsSetupError ==
  [][\A p \in Procs :
       (/\ proc[p].c \in DOMAIN conn
        /\ \/ PaySend(p)
           \/ RetryMarkActive(p)
           \/ CreateStoreActivate(p)
        /\ conn[proc[p].c].status # "ACTIVE"
        /\ conn'[proc[p].c].status = "ACTIVE") =>
         conn'[proc[p].c].setupError = Null]_vars

\* C25: PaymentHistory is append-only: every step of a payment, a manual
\* retry, a provisioning or a webhook keeps the rows already written, in
\* place and unchanged, and at most adds one row after them
PaymentHistoryAppendOnly ==
  [][/\ Len(hist') \in {Len(hist), Len(hist) + 1}
     /\ \A h \in DOMAIN hist : hist'[h] = hist[h]]_vars

\* a payment row that a webhook row was written after is still there
PaymentRowKept ==
  /\ Len(hist) = 2
  /\ hist[1].status \in {"success", "failed"}
  /\ hist[2].status \in {"user_removed_webhook", "store_deleted_webhook",
                         "store_modified_webhook"}

\* C26: a step that writes DISCONNECTED finds the connection ACTIVE or
\* FAILED: never PENDING or PENDING_SETUP, and never DISCONNECTED already
DisconnectedOnlyFromActiveOrFailed ==
  [][\A p \in Procs :
       (WebhookUserRemoved(p) \/ WebhookStoreDeleted(p)) =>
         conn[proc[p].c].status \in {"ACTIVE", "FAILED"}]_vars

\* C27: every PAID_SUBSCRIPTION connection that is ACTIVE has a
\* PaymentHistory row with status 'success'
PaidActiveHasPayment ==
  \A c \in DOMAIN conn :
    (conn[c].connectionType = "PAID_SUBSCRIPTION" /\ conn[c].status = "ACTIVE") =>
      \E h \in DOMAIN hist : hist[h].connectionId = c /\ hist[h].status = "success"

\* C28: when manual retries of one connection are under way together, the
\* update of each of them raises the stored retryCount by exactly one
RetryCountsEveryRetry ==
  [][\A p, q \in Procs :
       (/\ RetryUpdate(p)
        /\ q # p
        /\ proc[q].caller = "retry"
        /\ proc[q].pc # "done"
        /\ proc[q].c = proc[p].c
        /\ Val(proc[q].snap).retryCount = Val(proc[p].snap).retryCount) =>
         conn'[proc[p].c].retryCount = conn[proc[p].c].retryCount + 1]_vars

\* C29: a manual retry or a provisioning attempt that was under way when a
\* webhook disconnected its connection does not overwrite DISCONNECTED when
\* it completes
InFlightKeepsDisconnected ==
  [][\A p \in Procs :
       (/\ \/ RetryUpdate(p)
           \/ RetrySetup(p)
           \/ RetryMarkActive(p)
           \/ CreateStoreSetup(p)
           \/ CreateStoreActivate(p)
        /\ proc[p].c \in DOMAIN conn
        /\ conn[proc[p].c].status = "DISCONNECTED") =>
         conn'[proc[p].c].status = "DISCONNECTED"]_vars

\* C30: when a shop creation is answered with a client error (4xx), the
\* request has written nothing: the step that answers changes no table and
\* the shop row of the request (proc[p].s, 0 when none was created) does
\* not exist
RejectedCreationWritesNothing ==
  [][\A p \in Procs :
       (/\ ShopsRequest(p) \/ ShopsCreateConnection(p)
        /\ proc'[p].pc = "done"
        /\ Val(proc'[p].ret).code \in 400..499) =>
         /\ shop' = shop /\ conn' = conn /\ hist' = hist
         /\ proc[p].s \notin DOMAIN shop']_vars

====
